---- MODULE Spec2Model ----
(***************************************************************************)
(* A model of src/main.py: the MAP price monitor.  One Streamlit session   *)
(* runs main() per interaction; the "immediate scan" button handler walks  *)
(* the configured products with NaverCrawler.crawl_product, stores the     *)
(* result in st.session_state and in the sqlite database, and calls        *)
(* send_notifications.                                                     *)
(*                                                                         *)
(* Conventions.  Korean literals are written in ASCII: the brands are      *)
(* "Goraemi" and "Seolraedam", status "New" stands for the status literal  *)
(* of line 69/243, "Unknown" for the vendor fallback of line 214, the      *)
(* character "W" for the won sign of a price text.  A text is a sequence   *)
(* of one-character strings, a title a sequence of words.  A violation     *)
(* rate is kept in tenths of a percent (15.0% is 150), which is exactly    *)
(* what round(x, 1) can return.  Timestamps are the ordinal of the scan.   *)
(***************************************************************************)
EXTENDS Integers, Sequences, FiniteSets, TLC

(***************************************************************************)
(* Bounds of the model.                                                    *)
(***************************************************************************)
MaxItems == 2
MaxScans == 4
MaxNotify == 6
MaxText == 4
MaxFill == 11

(***************************************************************************)
(* Program constants.                                                      *)
(***************************************************************************)
TopN == 10
DigestMax == 5
BlacklistThreshold == 3
SleepLo == 3
SleepHi == 5
delay_min == 3
delay_max == 7

Min(a, b) == IF a < b THEN a ELSE b

\* Optional values: a Selenium element that find_element may not find, and
\* Python's Optional[int].
Missing == [found |-> FALSE]
Elem(x) == [found |-> TRUE, text |-> x]
None == [some |-> FALSE]
Some(n) == [some |-> TRUE, val |-> n]

(***************************************************************************)
(* Configuration: default_products, turned into Product objects.           *)
(***************************************************************************)
default_products ==
    << [brand |-> "Goraemi", name |-> "Goraemi Takowasabi", map_price |-> 18000,
        search_keyword |-> "Goraemi Takowasabi"],
       [brand |-> "Goraemi", name |-> "Goraemi Ganimiso", map_price |-> 25000,
        search_keyword |-> "Goraemi Ganimiso"],
       [brand |-> "Seolraedam", name |-> "Seolraedam Yeonpotang", map_price |-> 32000,
        search_keyword |-> "Seolraedam Yeonpotang"] >>

NumProducts == Len(default_products)

(***************************************************************************)
(* NaverCrawler.extract_price: re.sub(r'[^\d]', '', price_text), then      *)
(* int(price) if price else None.                                          *)
(***************************************************************************)
DigitChars == <<"0", "1", "2", "3", "4", "5", "6", "7", "8", "9">>

IsDigit(c) == \E d \in DOMAIN DigitChars : DigitChars[d] = c

DigitVal(c) == (CHOOSE d \in DOMAIN DigitChars : DigitChars[d] = c) - 1

RECURSIVE ToInt(_)
ToInt(ds) ==
    IF ds = <<>> THEN 0
    ELSE 10 * ToInt(SubSeq(ds, 1, Len(ds) - 1)) + DigitVal(ds[Len(ds)])

\* The digits in front of the first character that is not one.
RECURSIVE LeadingDigits(_)
LeadingDigits(price_text) ==
    IF price_text = <<>> \/ ~IsDigit(Head(price_text)) THEN <<>>
    ELSE << Head(price_text) >> \o LeadingDigits(Tail(price_text))

\* A parse that stops at the first separator.
extract_price_to_separator(price_text) ==
    LET price == LeadingDigits(price_text)
    IN  IF price # <<>> THEN Some(ToInt(price)) ELSE None

extract_price(price_text) ==
    LET price == SelectSeq(price_text, IsDigit)
    IN  IF price # <<>> THEN Some(ToInt(price)) ELSE None

(***************************************************************************)
(* round(((map_price - price) / map_price) * 100, 1), in tenths of a       *)
(* percent: the tenth nearest to 1000 * (map_price - price) / map_price.   *)
(* At an exact decimal tie Python's result depends on the double nearest   *)
(* to the quotient; the operator resolves a tie to the even tenth, and no  *)
(* price drawn below is at a tie.                                          *)
(***************************************************************************)
\* The rate cut to a tenth instead of rounded.
violation_rate_truncated(map_price, price) ==
    ((map_price - price) * 1000) \div map_price

violation_rate(map_price, price) ==
    LET num == (map_price - price) * 1000
        q   == num \div map_price
        r   == num % map_price
    IN  IF 2 * r < map_price THEN q
        ELSE IF 2 * r > map_price THEN q + 1
        ELSE IF q % 2 = 0 THEN q ELSE q + 1

\* "product.brand in title": the brand is a substring of the title.  A brand
\* has no blank in it, so it is a substring of the title exactly when it is
\* one of a word of the title.
WordHas(word, brand) ==
    \E j \in 1..(Len(word) - Len(brand) + 1) :
        SubSeq(word, j, j + Len(brand) - 1) = brand

BrandInTitle(brand, title) == \E k \in DOMAIN title : WordHas(title[k], brand)

\* Line 231: "if price and price < product.map_price".  None and 0 are both
\* false in Python.
IsViolation(price, map_price) ==
    /\ price.some
    /\ price.val # 0
    /\ price.val < map_price

NewViolation(product, vendor, price, url, now) ==
    [brand |-> product.brand,
     product_name |-> product.name,
     map_price |-> product.map_price,
     vendor_name |-> vendor,
     violation_price |-> price,
     violation_url |-> url,
     violation_rate |-> violation_rate(product.map_price, price),
     discovered_at |-> now,
     status |-> "New"]

\* The body of the for loop of crawl_product for one item (lines 204-248):
\* the violations it appends, none or one.
CheckItem(product, item, now) ==
    IF ~item.title.found THEN <<>>
    ELSE IF ~BrandInTitle(product.brand, item.title.text) THEN <<>>
    ELSE IF ~item.price.found THEN <<>>
    ELSE LET vendor == IF item.mall.found THEN item.mall.text ELSE "Unknown"
             price  == extract_price(item.price.text)
             url    == IF item.link.found THEN item.link.text ELSE ""
         IN  IF IsViolation(price, product.map_price)
             THEN << NewViolation(product, vendor, price.val, url, now) >>
             ELSE <<>>

RECURSIVE CheckItems(_, _, _)
CheckItems(product, items, now) ==
    IF items = <<>> THEN <<>>
    ELSE CheckItem(product, Head(items), now) \o CheckItems(product, Tail(items), now)

\* The whole list, whatever its length.
AllItems(items) == items

\* items[:10]
FirstItems(items) == SubSeq(items, 1, Min(TopN, Len(items)))

\* NaverCrawler.crawl_product: what it returns for the page the driver
\* loads.  A page that fails to load (driver.get or find_elements raises)
\* is caught by the outer except and leaves violations empty.
FetchError == [ok |-> FALSE]
Page(items) == [ok |-> TRUE, items |-> items]

crawl_product(product, page, now) ==
    IF ~page.ok THEN <<>>
    ELSE CheckItems(product, FirstItems(page.items), now)

(***************************************************************************)
(* Database: the violations table filled by save_violation, read by        *)
(* get_vendor_stats.  init_database also creates the vendors and           *)
(* scan_history tables, which nothing writes.                              *)
(***************************************************************************)
Row(v, id) == [id |-> id] @@ v

save_violation(table, v) == Append(table, Row(v, Len(table) + 1))

\* get_vendor_stats: SELECT vendor_name, COUNT(*) ... GROUP BY vendor_name
violation_count(table, vendor) ==
    Cardinality({k \in DOMAIN table : table[k].vendor_name = vendor})

VendorsOf(table) == {table[k].vendor_name : k \in DOMAIN table}

\* The blacklist view: vendor_stats[vendor_stats['violation_count'] >= 3]
blacklist(table) ==
    {vendor \in VendorsOf(table) : violation_count(table, vendor) >= BlacklistThreshold}

(***************************************************************************)
(* send_notifications(violations, config): the requests.post calls it      *)
(* makes.  post_ok says whether the post returns or raises (the except     *)
(* swallows it).  A field's value is kept as the values the f-string       *)
(* interpolates.                                                           *)
(***************************************************************************)
DigestField(v) ==
    [title |-> v.product_name,
     vendor |-> v.vendor_name,
     price |-> v.violation_price,
     map |-> v.map_price,
     rate |-> v.violation_rate]

\* violations[:5]
DigestShown(violations) == SubSeq(violations, 1, Min(DigestMax, Len(violations)))

\* The digest counting the violations it lists.
DigestMessageCountsShown(violations) ==
    [count |-> Len(DigestShown(violations)),
     fields |-> [k \in DOMAIN DigestShown(violations) |->
                    DigestField(DigestShown(violations)[k])]]

DigestMessage(violations) ==
    [count |-> Len(violations),
     fields |-> [k \in DOMAIN DigestShown(violations) |->
                    DigestField(DigestShown(violations)[k])]]

send_notifications(violations, config, post_ok) ==
    IF violations = <<>> THEN <<>>
    ELSE IF config.slack_webhook # ""
         THEN << [url |-> config.slack_webhook,
                  json |-> DigestMessage(violations),
                  delivered |-> post_ok] >>
         ELSE <<>>

(***************************************************************************)
(* Inputs: what the result page of a search shows.                         *)
(***************************************************************************)
RECURSIVE DigitsOf(_)
DigitsOf(n) ==
    IF n < 10 THEN << DigitChars[n + 1] >>
    ELSE DigitsOf(n \div 10) \o << DigitChars[(n % 10) + 1] >>

\* A price as the page prints it: "15,000" and the won sign.
WonText(n) ==
    LET ds == DigitsOf(n)
        l  == Len(ds)
    IN  (IF l > 3 THEN SubSeq(ds, 1, l - 3) \o <<",">> \o SubSeq(ds, l - 2, l) ELSE ds)
        \o <<"W">>

\* "price on request": a price text with no digit
InquiryText == <<"a", "s", "k">>

LowerCase(brand) == IF brand = "Goraemi" THEN "goraemi" ELSE "seolraedam"

Listing(title, mall, price, link) ==
    [title |-> title, mall |-> mall, price |-> price, link |-> link]

TitleOf(product) == Elem(<< product.brand, "pack" >>)

\* Listings of every kind the loop of crawl_product tells apart.
RichListings(product) ==
    LET m == product.map_price
        t == TitleOf(product)
    IN  { Listing(t, Elem("V"), Elem(WonText(m - 3000)), Elem("u1")),
          Listing(t, Elem("V"), Elem(WonText(m - 2000)), Elem("u2")),
          Listing(t, Missing, Elem(WonText(m - 1)), Missing),
          Listing(t, Elem("W"), Elem(<<"0", "W">>), Elem("u3")),
          Listing(t, Elem("W"), Elem(InquiryText), Elem("u3")),
          Listing(t, Elem("W"), Elem(WonText(m)), Elem("u3")),
          Listing(Elem(<< LowerCase(product.brand), "pack" >>), Elem("V"),
                  Elem(WonText(m - 3000)), Elem("u1")),
          Listing(t, Elem("V"), Missing, Elem("u1")),
          Listing(Missing, Elem("V"), Elem(WonText(m - 3000)), Elem("u1")) }

\* At most one listing, and that one 3000 won under MAP: vendor V sells the
\* first product, vendor W the third, nobody the second.
PlainListings(product) ==
    IF product = default_products[2] THEN {}
    ELSE { Listing(TitleOf(product),
                   Elem(IF product = default_products[1] THEN "V" ELSE "W"),
                   Elem(WonText(product.map_price - 3000)), Elem("u1")) }

SeqsUpTo(S, n) == UNION { [1..k -> S] : k \in 0..n }

PlainPages(i) ==
    IF i \in 1..NumProducts
    THEN {FetchError} \cup
         { Page(items) : items \in SeqsUpTo(PlainListings(default_products[i]), 1) }
    ELSE {}

\* The page of the first product shows up to MaxItems listings of every
\* kind; the pages of the other products are plain.
RichPages(i) ==
    IF i = 1
    THEN {FetchError} \cup
         { Page(items) : items \in SeqsUpTo(RichListings(default_products[1]), MaxItems) }
    ELSE PlainPages(i)

\* The pages among them that load.
LoadedPages(i) == { page \in PlainPages(i) : page.ok }

NoWebhook == [slack_webhook |-> "", n8n_webhook |-> ""]

Webhooks == {"", "https://hooks.example/x"}

Configs == [slack_webhook : Webhooks, n8n_webhook : Webhooks]

(***************************************************************************)
(* State.                                                                  *)
(*   session_state[s]  st.session_state of session s                       *)
(*   db                the sqlite database, shared by the sessions         *)
(*   run[s]            the frame of the immediate-scan handler of s        *)
(*   scans             how many scans have been started                    *)
(*   call              a direct call of send_notifications, extract_price  *)
(*                     or crawl_product, and what it returned              *)
(***************************************************************************)
VARIABLES session_state, db, run, scans, call

vars == << session_state, db, run, scans, call >>

Sessions == DOMAIN run

Ev(op) == [op |-> op, lo |-> 0, hi |-> 0]

\* time.sleep(random.uniform(lo, hi))
Sleep(lo, hi) == [op |-> "sleep", lo |-> lo, hi |-> hi]

IdleFrame ==
    [pc |-> "idle", i |-> 0, all_violations |-> <<>>, violations |-> <<>>,
     page |-> Page(<<>>), k |-> 0, driver |-> "none", log |-> <<>>,
     posts |-> <<>>, outcome |-> "none", now |-> 0]

InitSessions(S) ==
    /\ session_state = [s \in S |->
           [violations |-> <<>>, monitoring_active |-> FALSE,
            last_scan |-> 0, scan_history |-> <<>>]]
    /\ db = [violations |-> <<>>, vendors |-> <<>>, scan_history |-> <<>>]
    /\ run = [s \in S |-> IdleFrame]
    /\ scans = 0

NoCall == [fn |-> "none", violations |-> <<>>, config |-> NoWebhook,
           post_ok |-> TRUE, returned |-> FALSE, posts |-> <<>>]

\* One browser session, or two at the same server.
OneSession == {1}

TwoSessions == {1, 2}

Init == InitSessions(OneSession) /\ call = NoCall

Running(s) == run[s].pc # "idle"

(***************************************************************************)
(* The immediate-scan handler (lines 558-609), one action per step.        *)
(***************************************************************************)

\* Lines 561-567: the crawler and its driver, the empty accumulator.
ScanStart(s, limit) ==
    /\ run[s].pc = "idle"
    /\ scans < limit
    /\ scans' = scans + 1
    /\ run' = [run EXCEPT ![s] =
           [IdleFrame EXCEPT !.pc = "crawl", !.i = 1, !.driver = "open",
                             !.log = << Ev("setup_driver") >>, !.now = scans + 1]]
    /\ UNCHANGED << session_state, db, call >>

\* crawl_product without its outer except: a page that fails to load ends
\* the handler.
CrawlProductRaises(s, page) ==
    /\ run[s].pc = "crawl"
    /\ LET product == default_products[run[s].i]
           found   == crawl_product(product, page, run[s].now)
       IN  run' = [run EXCEPT ![s] =
               IF page.ok
               THEN [@ EXCEPT !.pc = "delay",
                              !.page = page,
                              !.violations = found,
                              !.all_violations = @ \o found,
                              !.log = @ \o << Ev("get"), Sleep(SleepLo, SleepHi) >>]
               ELSE [@ EXCEPT !.pc = "idle",
                              !.outcome = "FetchError",
                              !.log = @ \o << Ev("get"), Ev("raise") >>]]
    /\ UNCHANGED << session_state, db, scans, call >>

\* Lines 574-575: crawl_product on the page the driver gets, and
\* all_violations.extend.  The sleep of line 198 follows the get; a get that
\* raises skips it and lands in the outer except.
CrawlProduct(s, page) ==
    /\ run[s].pc = "crawl"
    /\ LET product == default_products[run[s].i]
           found   == crawl_product(product, page, run[s].now)
       IN  run' = [run EXCEPT ![s] =
               [@ EXCEPT !.pc = "delay",
                         !.page = page,
                         !.violations = found,
                         !.all_violations = @ \o found,
                         !.log = @ \o (IF page.ok
                                       THEN << Ev("get"), Sleep(SleepLo, SleepHi) >>
                                       ELSE << Ev("get"), Ev("except") >>)]]
    /\ UNCHANGED << session_state, db, scans, call >>

\* Line 578: time.sleep(random.uniform(delay_min, delay_max)), then the next
\* product or the end of the loop.
Delay(s) ==
    /\ run[s].pc = "delay"
    /\ run' = [run EXCEPT ![s] =
           [@ EXCEPT !.pc = IF run[s].i < NumProducts THEN "crawl" ELSE "close",
                     !.i = @ + 1,
                     !.page = Page(<<>>),
                     !.log = Append(@, Sleep(delay_min, delay_max))]]
    /\ UNCHANGED << session_state, db, scans, call >>

\* Line 580: crawler.close_driver()
CloseDriver(s) ==
    /\ run[s].pc = "close"
    /\ run' = [run EXCEPT ![s] =
           [@ EXCEPT !.pc = "store",
                     !.driver = "quit",
                     !.log = Append(@, Ev("close_driver"))]]
    /\ UNCHANGED << session_state, db, scans, call >>

\* Lines 583-588: the results go to st.session_state.
StoreResults(s) ==
    /\ run[s].pc = "store"
    /\ session_state' = [session_state EXCEPT ![s] =
           [@ EXCEPT !.violations = @ \o run[s].all_violations,
                     !.last_scan = run[s].now,
                     !.scan_history = Append(@, [time |-> run[s].now,
                                                 violations |-> Len(run[s].all_violations)])]]
    /\ run' = [run EXCEPT ![s] =
           [@ EXCEPT !.pc = IF run[s].all_violations = <<>> THEN "finish" ELSE "save",
                     !.k = 1,
                     !.log = @ \o << Ev("extend"), Ev("scan_history") >>]]
    /\ UNCHANGED << db, scans, call >>

\* Lines 591-592: db.save_violation(v) for the next violation.
SaveViolation(s) ==
    /\ run[s].pc = "save"
    /\ db' = [db EXCEPT !.violations = save_violation(@, run[s].all_violations[run[s].k])]
    /\ run' = [run EXCEPT ![s] =
           [@ EXCEPT !.pc = IF run[s].k < Len(run[s].all_violations) THEN "save" ELSE "notify",
                     !.k = @ + 1,
                     !.log = Append(@, Ev("save_violation"))]]
    /\ UNCHANGED << session_state, scans, call >>

\* A failed save_violation caught and passed over: the loop goes on.
SaveViolationSwallowed(s) ==
    /\ run[s].pc = "save"
    /\ run' = [run EXCEPT ![s] =
           [@ EXCEPT !.pc = IF run[s].k < Len(run[s].all_violations) THEN "save" ELSE "notify",
                     !.k = @ + 1,
                     !.log = Append(@, Ev("raise"))]]
    /\ UNCHANGED << session_state, db, scans, call >>

\* save_violation raises (sqlite3.Error): nothing catches it, the handler
\* ends there and the run of the script with it.
SaveViolationFails(s) ==
    /\ run[s].pc = "save"
    /\ run' = [run EXCEPT ![s] =
           [@ EXCEPT !.pc = "idle",
                     !.outcome = "StorageError",
                     !.log = Append(@, Ev("raise"))]]
    /\ UNCHANGED << session_state, db, scans, call >>

\* Lines 595-600: send_notifications, for a scan that found violations.
Notify(s, config, post_ok) ==
    /\ run[s].pc = "notify"
    /\ run' = [run EXCEPT ![s] =
           [@ EXCEPT !.pc = "finish",
                     !.posts = send_notifications(run[s].all_violations, config, post_ok),
                     !.log = Append(@, Ev("send_notifications"))]]
    /\ UNCHANGED << session_state, db, scans, call >>

\* Lines 602-609: the message that the scan is complete.
Finish(s) ==
    /\ run[s].pc = "finish"
    /\ run' = [run EXCEPT ![s] =
           [@ EXCEPT !.pc = "idle",
                     !.outcome = "complete",
                     !.log = Append(@, Ev("complete"))]]
    /\ UNCHANGED << session_state, db, scans, call >>

\* Lines 569-578, outside crawl_product: a statement of the loop raises
\* (progress_bar.progress and status_text.text are the commands at which
\* Streamlit stops or reruns a running script; time.sleep can be
\* interrupted).  The handler has no try around the loop: the exception
\* leaves it, and the close_driver of line 580 is not reached.
ScriptException(s) ==
    /\ run[s].pc \in {"crawl", "delay"}
    /\ run' = [run EXCEPT ![s] =
           [@ EXCEPT !.pc = "idle",
                     !.outcome = "ScriptException",
                     !.log = Append(@, Ev("interrupt"))]]
    /\ UNCHANGED << session_state, db, scans, call >>

(***************************************************************************)
(* The other buttons.                                                      *)
(***************************************************************************)
\* Lines 550-551
StartMonitoring(s) ==
    /\ run[s].pc = "idle"
    /\ session_state' = [session_state EXCEPT ![s].monitoring_active = TRUE]
    /\ UNCHANGED << db, run, scans, call >>

\* Lines 554-555
StopMonitoring(s) ==
    /\ run[s].pc = "idle"
    /\ session_state' = [session_state EXCEPT ![s].monitoring_active = FALSE]
    /\ UNCHANGED << db, run, scans, call >>

\* A reset that also empties the violations table.
ResetRecordsAndTable(s) ==
    /\ run[s].pc = "idle"
    /\ session_state' = [session_state EXCEPT ![s].violations = <<>>,
                                              ![s].scan_history = <<>>]
    /\ db' = [db EXCEPT !.violations = <<>>]
    /\ UNCHANGED << run, scans, call >>

\* Lines 766-769
ResetRecords(s) ==
    /\ run[s].pc = "idle"
    /\ session_state' = [session_state EXCEPT ![s].violations = <<>>,
                                              ![s].scan_history = <<>>]
    /\ UNCHANGED << db, run, scans, call >>

(***************************************************************************)
(* Specifications.                                                         *)
(***************************************************************************)
ScanStep(s) ==
    \/ Delay(s)
    \/ CloseDriver(s)
    \/ StoreResults(s)
    \/ SaveViolation(s)
    \/ SaveViolationFails(s)
    \/ \E config \in Configs, post_ok \in BOOLEAN : Notify(s, config, post_ok)
    \/ Finish(s)

\* The steps of a scan that has started.
ScanRun(s) ==
    \/ \E page \in RichPages(run[s].i) : CrawlProduct(s, page)
    \/ ScanStep(s)

Buttons(s) ==
    \/ StartMonitoring(s)
    \/ StopMonitoring(s)
    \/ ResetRecords(s)

\* One session, one scan, listings of every kind for the first product.
Next ==
    \E s \in OneSession :
        \/ ScanStart(s, 1)
        \/ \E page \in RichPages(run[s].i) : CrawlProduct(s, page)
        \/ ScanStep(s)
        \/ Buttons(s)

Spec == Init /\ [][Next]_vars

\* One session, scan after scan, pages with at most one listing, which is
\* under MAP.
NextLedger ==
    \E s \in OneSession :
        \/ ScanStart(s, MaxScans)
        \/ \E page \in LoadedPages(run[s].i) : CrawlProduct(s, page)
        \/ Delay(s)
        \/ CloseDriver(s)
        \/ StoreResults(s)
        \/ SaveViolation(s)
        \/ SaveViolationFails(s)
        \/ Notify(s, NoWebhook, TRUE)
        \/ Finish(s)
        \/ ResetRecords(s)

SpecLedger == Init /\ [][NextLedger]_vars

\* Two sessions of the same server, one scan each at most.
InitTwo == InitSessions(TwoSessions) /\ call = NoCall

NextTwo ==
    \E s \in TwoSessions :
        \/ ScanStart(s, Cardinality(TwoSessions))
        \/ \E page \in PlainPages(run[s].i) : CrawlProduct(s, page)
        \/ ScanStep(s)

SpecTwo == InitTwo /\ [][NextTwo]_vars

\* send_notifications called on its own, on lists of up to MaxNotify
\* violations.
SampleViolations ==
    { NewViolation(default_products[1], "V", 15000, "u1", 1),
      NewViolation(default_products[1], "W", 16000, "u2", 1) }

InitNotify ==
    /\ InitSessions(OneSession)
    /\ \E violations \in SeqsUpTo(SampleViolations, MaxNotify), config \in Configs,
          post_ok \in BOOLEAN :
           call = [fn |-> "send_notifications", violations |-> violations,
                   config |-> config, post_ok |-> post_ok,
                   returned |-> FALSE, posts |-> <<>>]

CallNotify ==
    /\ call.fn = "send_notifications"
    /\ ~call.returned
    /\ call' = [call EXCEPT !.returned = TRUE,
                            !.posts = send_notifications(call.violations, call.config,
                                                         call.post_ok)]
    /\ UNCHANGED << session_state, db, run, scans >>

NextNotify == CallNotify

SpecNotify == InitNotify /\ [][NextNotify]_vars

\* One session, one scan, which an exception raised in the product loop may
\* end.
NextInterrupt ==
    \E s \in OneSession :
        \/ ScanStart(s, 1)
        \/ \E page \in PlainPages(run[s].i) : CrawlProduct(s, page)
        \/ ScanStep(s)
        \/ ScriptException(s)

SpecInterrupt == Init /\ [][NextInterrupt]_vars

\* extract_price called on its own, on every text of up to MaxText
\* characters and on the price texts "19,800W" and "ask".
PriceChars == {"0", "1", "8", ",", "W"}

PriceTexts ==
    SeqsUpTo(PriceChars, MaxText) \cup {WonText(19800), InquiryText}

InitExtract ==
    /\ InitSessions(OneSession)
    /\ \E price_text \in PriceTexts :
           call = [fn |-> "extract_price", price_text |-> price_text,
                   returned |-> FALSE, result |-> None]

CallExtract ==
    /\ call.fn = "extract_price"
    /\ ~call.returned
    /\ call' = [call EXCEPT !.returned = TRUE,
                            !.result = extract_price(call.price_text)]
    /\ UNCHANGED << session_state, db, run, scans >>

NextExtract == CallExtract

SpecExtract == InitExtract /\ [][NextExtract]_vars

\* crawl_product called on its own, on result pages of more than TopN
\* listings.  Every listing is 3000 won under MAP and carries the link of
\* its position; the titles differ.
UrlAt(j) == "u" \o ToString(j)

\* The titles the brand test tells apart: the brand as a word, the brand
\* inside a longer word, the brand in lower case, another brand, no title
\* element.
Titles(product) ==
    { Elem(<< product.brand, "pack" >>),
      Elem(<< "new", "X" \o product.brand \o "X" >>),
      Elem(<< LowerCase(product.brand), "pack" >>),
      Elem(<< "Other", "pack" >>),
      Missing }

ListingAt(product, title, j) ==
    Listing(title, Elem("V"), Elem(WonText(product.map_price - 3000)), Elem(UrlAt(j)))

\* Up to MaxFill listings with the brand in the title, then up to MaxItems
\* listings of any title.
LongPages(product) ==
    { Page([j \in 1..(fill + Len(tail)) |->
               ListingAt(product,
                         IF j <= fill THEN TitleOf(product) ELSE tail[j - fill], j)]) :
          fill \in 0..MaxFill, tail \in SeqsUpTo(Titles(product), MaxItems) }

InitCrawl ==
    /\ InitSessions(OneSession)
    /\ \E product \in {default_products[1], default_products[3]} :
           \E page \in {FetchError} \cup LongPages(product) :
               call = [fn |-> "crawl_product", product |-> product, page |-> page,
                       returned |-> FALSE, result |-> <<>>]

CallCrawl ==
    /\ call.fn = "crawl_product"
    /\ ~call.returned
    /\ call' = [call EXCEPT !.returned = TRUE,
                            !.result = crawl_product(call.product, call.page, 1)]
    /\ UNCHANGED << session_state, db, run, scans >>

NextCrawl == CallCrawl

SpecCrawl == InitCrawl /\ [][NextCrawl]_vars

(***************************************************************************)
(* Properties.                                                             *)
(***************************************************************************)
Abs(x) == IF x < 0 THEN -x ELSE x

Count(log, op) == Cardinality({j \in DOMAIN log : log[j].op = op})

IsSuffix(t, u) ==
    /\ Len(t) <= Len(u)
    /\ SubSeq(u, Len(u) - Len(t) + 1, Len(u)) = t

IsPrefix(t, u) ==
    /\ Len(t) <= Len(u)
    /\ SubSeq(u, 1, Len(t)) = t

\* Every violation a scan has produced: the accumulator of each handler,
\* the session's list, the database's rows.
Produced ==
    UNION { {run[s].all_violations[k] : k \in DOMAIN run[s].all_violations} \cup
            {session_state[s].violations[k] : k \in DOMAIN session_state[s].violations}
            : s \in Sessions }

\* rate (tenths of a percent) is a tenth nearest to (map - price) / map * 100
IsRounded(rate, map_price, price) ==
    2 * Abs(rate * map_price - (map_price - price) * 1000) <= map_price

\* C1, as amended: every Violation a scan produces has violationPrice <
\* mapPrice and violationRate = round((mapPrice - violationPrice) / mapPrice
\* * 100, 1), and that rate is never negative; it is 0.0, not strictly
\* positive, when the shortfall is under 0.05% of mapPrice.
C1_RateOfViolation ==
    \A v \in Produced :
        /\ v.violation_price < v.map_price
        /\ IsRounded(v.violation_rate, v.map_price, v.violation_price)
        /\ v.violation_rate >= 0
        /\ (v.violation_rate = 0 =>
               2000 * (v.map_price - v.violation_price) <= v.map_price)

\* A scan has produced a violation one won under MAP, whose rate is 0.0,
\* and one 3000 won under MAP.
C1_Witness ==
    /\ \E v \in Produced : v.violation_rate = 0 /\ v.violation_price = v.map_price - 1
    /\ \E v \in Produced : v.violation_rate > 0 /\ v.violation_price = v.map_price - 3000

\* C1 as stated: the rate of every violation is strictly greater than 0.
C1_AsClaimed ==
    \A v \in Produced :
        /\ v.violation_price < v.map_price
        /\ IsRounded(v.violation_rate, v.map_price, v.violation_price)
        /\ v.violation_rate > 0

\* C2 as stated: within one scan at most one Violation per (vendorName,
\* productName), and it carries the lowest price that vendor lists for the
\* product under MAP.
C2_AsClaimed ==
    \A s \in Sessions :
        LET all == run[s].all_violations
        IN  \A j, k \in DOMAIN all :
                (all[j].vendor_name = all[k].vendor_name
                 /\ all[j].product_name = all[k].product_name) => j = k

\* The listings the detector is handed: those ListingFetcher returns, with
\* the brand in the title and a price text.
RawListing(product, item) ==
    /\ item.title.found
    /\ BrandInTitle(product.brand, item.title.text)
    /\ item.price.found

\* The rule of the claim for one listing: a price was extracted, 0
\* included, and it is under MAP.
ClaimedToViolate(product, item) ==
    /\ RawListing(product, item)
    /\ \E ch \in {item.price.text[j] : j \in DOMAIN item.price.text} : IsDigit(ch)
    /\ ToInt(SelectSeq(item.price.text, IsDigit)) < product.map_price

\* C3 as stated: the violations crawl_product returns for a page are, one
\* for one and in order, the listings with an extracted price under MAP,
\* each with status New.
C3_AsClaimed ==
    \A s \in Sessions :
        (run[s].pc = "delay" /\ run[s].page.ok) =>
            LET product == default_products[run[s].i]
                items   == run[s].page.items
                claimed == SelectSeq(items, LAMBDA it : ClaimedToViolate(product, it))
            IN  /\ Len(run[s].violations) = Len(claimed)
                /\ \A k \in DOMAIN run[s].violations : run[s].violations[k].status = "New"

\* C7 as stated: every get of a listing page, the first of the scan
\* included, comes right after a sleep drawn from [delay_min, delay_max].
C7_AsClaimed ==
    \A s \in Sessions :
        \A j \in DOMAIN run[s].log :
            run[s].log[j].op = "get" =>
                /\ j > 1
                /\ run[s].log[j - 1] = Sleep(delay_min, delay_max)

\* The scan of session s is over: its handler has returned or raised.
ScanOver(s) == run[s].pc = "idle" /\ run[s].outcome # "none"

\* The product loop of the scan of session s is behind it.
AfterLoop(s) == run[s].pc \in {"close", "store", "save", "notify", "finish"} \/ ScanOver(s)

\* What the loop body makes of a listing (line 231).
ListedUnderMap(product, item) ==
    /\ RawListing(product, item)
    /\ extract_price(item.price.text).some
    /\ extract_price(item.price.text).val > 0
    /\ extract_price(item.price.text).val < product.map_price

C4_State(s) ==
    /\ Running(s) => ENABLED ScanRun(s)
    /\ run[s].outcome \in {"none", "complete", "StorageError"}
    /\ (run[s].pc = "delay" /\ ~run[s].page.ok) => run[s].violations = <<>>
    /\ AfterLoop(s) => Count(run[s].log, "get") = NumProducts
    /\ ScanOver(s) => Count(run[s].log, "scan_history") = 1

C4_Step(s) ==
    /\ (Running(s) /\ run'[s].pc # "idle" /\ run'[s] # run[s]) =>
           IsPrefix(run[s].all_violations, run'[s].all_violations)
    /\ (run[s].pc = "crawl" /\ run'[s].pc # "crawl") =>
           /\ run'[s].pc = "delay"
           /\ run'[s].all_violations = run[s].all_violations \o run'[s].violations
           /\ (run'[s].page.ok /\ \E j \in DOMAIN run'[s].page.items :
                   ListedUnderMap(default_products[run[s].i], run'[s].page.items[j]))
                  => run'[s].violations # <<>>
    /\ (run[s].pc = "store" /\ run'[s].pc # "store") =>
           /\ Len(session_state'[s].scan_history) = Len(session_state[s].scan_history) + 1
           /\ session_state'[s].scan_history[Len(session_state'[s].scan_history)].violations
                  = Len(run[s].all_violations)

C8_AsClaimed ==
    \A s \in Sessions :
        /\ \A j \in DOMAIN run[s].log :
               run[s].log[j].op = "scan_history" =>
                   Count(SubSeq(run[s].log, 1, j), "save_violation")
                       = Len(run[s].all_violations)
        /\ (run[s].outcome = "complete" /\ run[s].all_violations # <<>>) =>
               Count(run[s].log, "send_notifications") = 1

C9_State(s) ==
    Count(run[s].log, "raise") > 0 =>
        /\ run[s].pc = "idle"
        /\ run[s].outcome = "StorageError"
        /\ run[s].log[Len(run[s].log)].op = "raise"
        /\ Count(run[s].log, "complete") = 0
        /\ Count(run[s].log, "send_notifications") = 0
        /\ run[s].posts = <<>>
        /\ Count(run[s].log, "save_violation") < Len(run[s].all_violations)

C9_Step(s) ==
    (Count(run[s].log, "raise") = 0 /\ Count(run'[s].log, "raise") > 0) =>
        /\ run'[s].all_violations = run[s].all_violations
        /\ IsSuffix(run[s].all_violations, session_state'[s].violations)
        /\ db' = db

\* C9: when save_violation fails part-way, nothing more of the persistence
\* step is done (no further save, no notification), the handler ends with
\* the storage error and never with the completion message, and the
\* violations of the scan are all in the session's list.
C9_StorageFailure ==
    /\ [](\A s \in Sessions : C9_State(s))
    /\ [][\A s \in Sessions : C9_Step(s)]_vars

\* A scan of two or more violations whose save failed after the first.
C9_Witness ==
    \E s \in Sessions :
        /\ run[s].outcome = "StorageError"
        /\ Count(run[s].log, "save_violation") >= 1
        /\ Len(run[s].all_violations) >= 2
        /\ IsSuffix(run[s].all_violations, session_state[s].violations)

Vendors == {"V", "W", "Unknown"}

\* The rows of vendor saved so far, by the scan that found them.
ScansOf(vendor) ==
    {db.violations[k].discovered_at :
        k \in {j \in DOMAIN db.violations : db.violations[j].vendor_name = vendor}}

\* C6: no step lowers the violation count of a vendor, the blacklist holds
\* exactly the vendors whose count is 3 or more, and a vendor once on it
\* stays on it.
C6_VendorBlacklist ==
    /\ [](\A vendor \in Vendors :
              vendor \in blacklist(db.violations)
                  <=> violation_count(db.violations, vendor) >= 3)
    /\ [][\A vendor \in Vendors :
              /\ violation_count(db'.violations, vendor)
                     >= violation_count(db.violations, vendor)
              /\ vendor \in blacklist(db.violations)
                     => vendor \in blacklist(db'.violations)]_vars

\* Vendor V with one violation from each of four scans, on the blacklist,
\* after a reset of the session's records.
C6_Witness ==
    /\ violation_count(db.violations, "V") = 4
    /\ ScansOf("V") = 1..4
    /\ "V" \in blacklist(db.violations)
    /\ \E s \in Sessions : session_state[s].violations = <<>>

\* C5 as stated: at most one scan is running at any time.
C5_AsClaimed == Cardinality({s \in Sessions : Running(s)}) <= 1

\* C10: send_notifications posts nothing for an empty list; a digest it posts
\* lists the first min(5, n) of the n violations, in their order, and gives
\* n as the count.
C10_Digest ==
    call.returned =>
        /\ call.violations = <<>> => call.posts = <<>>
        /\ \A p \in DOMAIN call.posts :
               LET n    == Len(call.violations)
                   json == call.posts[p].json
               IN  /\ json.count = n
                   /\ Len(json.fields) = (IF n < 5 THEN n ELSE 5)
                   /\ \A k \in DOMAIN json.fields :
                          json.fields[k] = DigestField(call.violations[k])

\* A digest posted for a list of six violations.
C10_Witness ==
    /\ call.returned
    /\ Len(call.violations) = 6
    /\ call.posts # <<>>
    /\ call.violations[1] # call.violations[2]

\* The sinks of the configuration the handler builds (lines 596-599).
Sinks == {"slack_webhook", "n8n_webhook"}

ConfiguredSinks(config) == {sink \in Sinks : config[sink] # ""}

\* C11 as stated: a call of send_notifications with violations attempts one
\* delivery for every configured sink, no more and no less.
C11_AsClaimed ==
    (call.returned /\ call.violations # <<>>) =>
        Len(call.posts) = Cardinality(ConfiguredSinks(call.config))

\* C12 as stated: in no state is the scan over, by its completion or by an
\* error, while the driver that setup_driver opened is still open.
C12_AsClaimed ==
    \A s \in Sessions : ScanOver(s) => run[s].driver # "open"

\* The scans of session s completed so far, where at most one scan is
\* started: the handler's last outcome tells.
CompletedScans(s) == IF run[s].outcome = "complete" THEN 1 ELSE 0

\* C13 as stated: between scans, whatever buttons were pressed, the session
\* holds one scan summary for every scan completed so far.
C13_AsClaimed ==
    \A s \in Sessions :
        (run[s].pc = "idle" /\ scans <= 1) =>
            Len(session_state[s].scan_history) = CompletedScans(s)

\* The positions of a text that hold a digit.
DigitsAt(text) == {j \in DOMAIN text : IsDigit(text[j])}

RECURSIVE Pow10(_)
Pow10(n) == IF n = 0 THEN 1 ELSE 10 * Pow10(n - 1)

\* The number the digits at positions P of a text spell, each digit weighed
\* by the digits of the text to its right.
RECURSIVE PlaceSum(_, _)
PlaceSum(text, P) ==
    IF P = {} THEN 0
    ELSE LET j == CHOOSE j \in P : TRUE
         IN  DigitVal(text[j]) * Pow10(Cardinality({k \in DigitsAt(text) : k > j}))
                 + PlaceSum(text, P \ {j})

HasBrandAt(word, brand, j) ==
    /\ j + Len(brand) - 1 <= Len(word)
    /\ \A c \in 1..Len(brand) :
           SubSeq(word, j + c - 1, j + c - 1) = SubSeq(brand, c, c)

\* The title element was found and its text contains the brand, case and all.
TitleContains(title, brand) ==
    /\ title.found
    /\ \E k \in DOMAIN title.text :
           \E j \in 1..Len(title.text[k]) : HasBrandAt(title.text[k], brand, j)

\* The violations among those returned that come from the listing at j.
FromListing(result, j) == {k \in DOMAIN result : result[k].violation_url = UrlAt(j)}

\* C15: every violation crawl_product returns comes from one of the first 10
\* listings of the page and from a listing whose title contains the brand of
\* the product as a case-sensitive substring; a listing past the 10th or
\* without the brand in its title yields no violation, and one among the
\* first 10 with the brand and a price under MAP yields one.
C15_BrandAndTopN ==
    (call.fn = "crawl_product" /\ call.returned /\ call.page.ok) =>
        LET items  == call.page.items
            result == call.result
        IN  /\ \A k \in DOMAIN result :
                   \E j \in DOMAIN items :
                       /\ j <= 10
                       /\ result[k].violation_url = UrlAt(j)
                       /\ TitleContains(items[j].title, call.product.brand)
            /\ \A j \in DOMAIN items :
                   Cardinality(FromListing(result, j)) =
                       (IF j <= 10 /\ TitleContains(items[j].title, call.product.brand)
                        THEN 1 ELSE 0)

\* A page of 11 listings, all under MAP: the 10th, with the brand inside a
\* longer word, gave the last of ten violations, the 11th, with the brand as
\* a word, gave none.
C15_Witness ==
    /\ call.fn = "crawl_product"
    /\ call.returned
    /\ call.page.ok
    /\ Len(call.page.items) = 11
    /\ call.page.items[10].title = Elem(<< "new", "X" \o call.product.brand \o "X" >>)
    /\ call.page.items[11].title = TitleOf(call.product)
    /\ Len(call.result) = 10
    /\ call.result[10].violation_url = UrlAt(10)

====
